---------------------------- MODULE Spec2Model ----------------------------
(***************************************************************************)
(* Model of the two exported kernels of tamadalab/wasm-wat-trimming:       *)
(*                                                                         *)
(*   bubble_sort(ptr, len)  src/trimming-tail/5000/data/bubsort/src/lib.rs *)
(*   collatz_steps(n)    src/trimming-random/3000/data/collatz/src/lib.rs  *)
(*                                                                         *)
(* Each function is a small state machine whose program counter follows    *)
(* the source line by line.  i32 values keep their 32-bit width; usize     *)
(* values are kept as two's-complement bit patterns, so that a wrapped     *)
(* "0 - 1" is the pattern -1 and compares as the largest unsigned value.   *)
(***************************************************************************)
EXTENDS Integers, Sequences, FiniteSets

(***************************************************************************)
(* Bounds of the model and constants of the program.                       *)
(***************************************************************************)
\* Longest buffer handed to bubble_sort.
MaxLen == 4
\* Buffer elements are drawn from {MinI32, MaxI32} \cup 0..MaxVal.
MaxVal == 1
\* collatz_steps is run on every n in 1..MaxN.
MaxN == 10000
\* collatz_steps is run on every n in -MaxNeg..0 (and on MinI32).
MaxNeg == 3

\* i32::MAX and i32::MIN.
MaxI32 == 2147483647
MinI32 == (0 - MaxI32) - 1

VARIABLES
    overflowChecks, \* the build: TRUE = overflow checks on (debug profile)
    debugAssertions,\* the build: TRUE = debug assertions on (debug profile)
    \* ---- bubble_sort ----
    ptr,            \* what the caller passed as ptr: "ok", "null", "unaligned"
    arr,            \* the caller's buffer, arr[k+1] is the element at index k
    n,              \* let n = arr.len()
    i,              \* outer loop variable
    j,              \* inner loop variable
    bound,          \* end of the inner range, n - 1 - i
    pc,             \* position in bubble_sort
    call,           \* 1 during the first call on the buffer, 2 in the second
    \* observers of bubble_sort (not read by the code)
    input,          \* the buffer as the caller first passed it
    perm,           \* perm[k+1] = index in input of the element now at index k
    cmpLog,         \* the <<i, j>> of every comparison of the current call
    swaps,          \* number of swaps of the current call
    passes,         \* number of times the outer loop body was entered
    touched,        \* indices the current call has indexed the slice with
    underflow,      \* TRUE once n - 1 - i has borrowed
    after1,         \* the buffer as the first call left it
    \* ---- collatz_steps ----
    n0,             \* the argument
    cn,             \* mut n
    steps,          \* mut steps
    cpc,            \* position in collatz_steps
    result          \* the returned value

sortVars == <<ptr, arr, n, i, j, bound, pc, call, input, perm, cmpLog, swaps,
              passes, touched, underflow, after1>>
collatzVars == <<n0, cn, steps, cpc, result>>
buildVars == <<overflowChecks, debugAssertions>>
vars == <<buildVars, sortVars, collatzVars>>

(***************************************************************************)
(* usize arithmetic on bit patterns.                                       *)
(***************************************************************************)
\* a < b as unsigned values.
ULess(a, b) == IF (a >= 0) = (b >= 0) THEN a < b ELSE a >= 0

\* a - b on usize: the wrapped difference and whether it borrowed.
USub(a, b) == [val |-> a - b, borrow |-> ULess(a, b)]

(***************************************************************************)
(* bubble_sort                                                             *)
(***************************************************************************)
Vals == {MinI32, MaxI32} \cup (0 .. MaxVal)

Buffers == UNION {[1 .. len -> Vals] : len \in 0 .. MaxLen}

\* for i in 0..n: is there a next i?  (OuterCondIncl: the slip 0..=n.)
OuterCondIncl(p, len) == ULess(p, len) \/ p = len
OuterCond(p, len) == ULess(p, len)

\* The end of the inner range, n - 1 - i, evaluated left to right.
\* (InnerBoundNoPass: the slip n - 1.)
InnerBoundNoPass(len, p) == USub(len, 1)
InnerBound(len, p) ==
    LET a == USub(len, 1)
        b == USub(a.val, p)
    IN  [val |-> b.val, borrow |-> a.borrow \/ b.borrow]

\* for j in 0..bound: is there a next j?  (InnerCondIncl: the slip 0..=bound;
\* InnerCondShort: the slip 0..bound - 1.)
InnerCondIncl(k, b) == ULess(k, b) \/ k = b
InnerCondShort(k, b) == ULess(k + 1, b)
InnerCond(k, b) == ULess(k, b)

\* arr[j] > arr[j + 1] on i32.  (OutOfOrderGe, OutOfOrderNe, OutOfOrderLt: the
\* slips >=, != and <.)
OutOfOrderGe(a, b) == a >= b
OutOfOrderNe(a, b) == a # b
OutOfOrderLt(a, b) == a < b
OutOfOrder(a, b) == a > b

\* slice.swap(k, k + 1), k a 0-based index.
SwapAt(s, k) == [s EXCEPT ![k + 1] = s[k + 2], ![k + 2] = s[k + 1]]

\* slice indexing is bounds-checked.
InBounds(k, len) == ULess(k, len)

\* The addresses a caller may pass: one that is non-null, aligned and points at
\* len elements; for len = 0, where no element has to be there, also a null
\* and a misaligned one.
PtrKinds(len) == IF len = 0 THEN {"ok", "null", "unaligned"} ELSE {"ok"}

\* line 7: from_raw_parts_mut requires ptr to be non-null and aligned.
PtrValid(p) == p = "ok"

SortInit ==
    /\ arr \in Buffers
    /\ ptr \in PtrKinds(Len(arr))
    /\ input = arr
    /\ perm = [k \in DOMAIN arr |-> k - 1]
    /\ n = 0 /\ i = 0 /\ j = 0 /\ bound = 0
    /\ pc = "start"
    /\ call = 1
    /\ cmpLog = <<>> /\ swaps = 0 /\ passes = 0 /\ touched = {}
    /\ underflow = FALSE
    /\ after1 = <<>>

\* lines 7-8: the slice over the caller's buffer and its length.  A null or
\* misaligned ptr is undefined behaviour, also for len = 0: a build with debug
\* assertions checks it and aborts the process at line 7; a build without
\* them makes the (empty) slice and goes on.
Call ==
    /\ pc = "start"
    /\ IF ~PtrValid(ptr) /\ debugAssertions
       THEN /\ pc' = "abort"
            /\ UNCHANGED <<n, i>>
       ELSE /\ n' = Len(arr)
            /\ i' = 0
            /\ pc' = "outer"
    /\ UNCHANGED <<arr, j, bound, call, input, perm, cmpLog, swaps, passes,
                   touched, underflow, after1>>
    /\ UNCHANGED <<buildVars, ptr, collatzVars>>

\* line 11: for i in 0..n
OuterLoop ==
    /\ pc = "outer"
    /\ IF OuterCond(i, n)
       THEN /\ pc' = "range"
            /\ passes' = passes + 1
       ELSE /\ pc' = "ret"
            /\ passes' = passes
    /\ UNCHANGED <<arr, n, i, j, bound, call, input, perm, cmpLog, swaps,
                   touched, underflow, after1>>
    /\ UNCHANGED <<buildVars, ptr, collatzVars>>

\* line 12: the range 0..n - 1 - i is built once, on entering the inner loop.
\* A borrow panics with overflow checks on and wraps with them off.
InnerRange ==
    /\ pc = "range"
    /\ LET b == InnerBound(n, i)
       IN  /\ underflow' = (underflow \/ b.borrow)
           /\ IF b.borrow /\ overflowChecks
              THEN /\ pc' = "panic"
                   /\ UNCHANGED <<bound, j>>
              ELSE /\ bound' = b.val
                   /\ j' = 0
                   /\ pc' = "inner"
    /\ UNCHANGED <<arr, n, i, call, input, perm, cmpLog, swaps, passes,
                   touched, after1>>
    /\ UNCHANGED <<buildVars, ptr, collatzVars>>

\* line 12: for j in 0..bound; line 11: the next i when the range is used up.
InnerLoop ==
    /\ pc = "inner"
    /\ IF InnerCond(j, bound)
       THEN /\ pc' = "cmp"
            /\ i' = i
       ELSE /\ pc' = "outer"
            /\ i' = i + 1
    /\ UNCHANGED <<arr, n, j, bound, call, input, perm, cmpLog, swaps, passes,
                   touched, underflow, after1>>
    /\ UNCHANGED <<buildVars, ptr, collatzVars>>

\* line 13: if arr[j] > arr[j + 1]; an index outside the slice panics.
Compare ==
    /\ pc = "cmp"
    /\ cmpLog' = Append(cmpLog, <<i, j>>)
    /\ touched' = touched \cup (IF InBounds(j, n) THEN {j, j + 1} ELSE {j})
    /\ IF ~(InBounds(j, n) /\ InBounds(j + 1, n))
       THEN /\ pc' = "panic"
            /\ j' = j
       ELSE IF OutOfOrder(arr[j + 1], arr[j + 2])
       THEN /\ pc' = "swap"
            /\ j' = j
       ELSE /\ pc' = "inner"
            /\ j' = j + 1
    /\ UNCHANGED <<arr, n, i, bound, call, input, perm, swaps, passes,
                   underflow, after1>>
    /\ UNCHANGED <<buildVars, ptr, collatzVars>>

\* line 14: arr.swap(j, j + 1), then the next j.
Swap ==
    /\ pc = "swap"
    /\ arr' = SwapAt(arr, j)
    /\ perm' = SwapAt(perm, j)
    /\ swaps' = swaps + 1
    /\ j' = j + 1
    /\ pc' = "inner"
    /\ UNCHANGED <<n, i, bound, call, input, cmpLog, passes, touched,
                   underflow, after1>>
    /\ UNCHANGED <<buildVars, ptr, collatzVars>>

\* line 18: the function returns.
Return ==
    /\ pc = "ret"
    /\ pc' = "done"
    /\ after1' = IF call = 1 THEN arr ELSE after1
    /\ UNCHANGED <<arr, n, i, j, bound, call, input, perm, cmpLog, swaps,
                   passes, touched, underflow>>
    /\ UNCHANGED <<buildVars, ptr, collatzVars>>

\* The caller calls bubble_sort again on the buffer the first call left.
CallAgain ==
    /\ pc = "done"
    /\ call = 1
    /\ call' = 2
    /\ pc' = "start"
    /\ n' = 0 /\ i' = 0 /\ j' = 0 /\ bound' = 0
    /\ cmpLog' = <<>> /\ swaps' = 0 /\ passes' = 0 /\ touched' = {}
    /\ UNCHANGED <<arr, input, perm, underflow, after1>>
    /\ UNCHANGED <<buildVars, ptr, collatzVars>>

\* collatz_steps is not called.
CollatzIdle ==
    /\ n0 = 0 /\ cn = 0 /\ steps = 0 /\ cpc = "idle" /\ result = 0

SortNext ==
    \/ Call
    \/ OuterLoop
    \/ InnerRange
    \/ InnerLoop
    \/ Compare
    \/ Swap
    \/ Return
    \/ CallAgain

\* bubble_sort on every buffer of Buffers, in every build.
SortSpecInit ==
    /\ overflowChecks \in BOOLEAN
    /\ debugAssertions \in BOOLEAN
    /\ SortInit
    /\ CollatzIdle

SpecSort == SortSpecInit /\ [][SortNext]_vars

(***************************************************************************)
(* i32 arithmetic.  Every intermediate value stays within 32 bits.         *)
(***************************************************************************)
\* a + b on i32: the sum wrapped modulo 2^32 and whether it overflowed.
\* (AddI32Sat: the slip of saturating instead.)
AddI32Sat(a, b) ==
    IF b > 0 /\ a > MaxI32 - b THEN [val |-> MaxI32, ovf |-> TRUE]
    ELSE IF b < 0 /\ a < MinI32 - b THEN [val |-> MinI32, ovf |-> TRUE]
    ELSE [val |-> a + b, ovf |-> FALSE]
AddI32(a, b) ==
    IF b > 0 /\ a > MaxI32 - b
    THEN [val |-> (a + MinI32) + (b + MinI32), ovf |-> TRUE]
    ELSE IF b < 0 /\ a < MinI32 - b
    THEN [val |-> (a - MinI32) + (b - MinI32), ovf |-> TRUE]
    ELSE [val |-> a + b, ovf |-> FALSE]

\* 3 * x on i32, as x + x + x in wrapped additions: the product wrapped
\* modulo 2^32 and whether it overflowed.
Mul3I32(x) ==
    LET d == AddI32(x, x)
        t == AddI32(d.val, x)
    IN  [val |-> t.val, ovf |-> d.ovf \/ t.ovf]

\* a / b and a % b on i32 truncate towards zero (b > 0 here).
DivI32(a, b) == IF a >= 0 THEN a \div b ELSE 0 - ((0 - a) \div b)
RemI32(a, b) == a - b * DivI32(a, b)

(***************************************************************************)
(* collatz_steps                                                           *)
(***************************************************************************)
\* Arguments the model calls collatz_steps with: the range of the
\* specification, non-positive values, and values whose 3n+1 leaves i32
\* (113383 is the least n whose trajectory does; 715827883 is the least odd
\* n with 3n+1 > i32::MAX; 3 * 1431655765 + 1 = 2^32).
OverflowInputs == {113383, 715827883, 1431655765, 1431655767, MaxI32}
NonPositiveInputs == {MinI32} \cup ((0 - MaxNeg) .. 0)
RangeInputs == 1 .. MaxN

\* line 7: while n > 1  (LoopCondGt2, LoopCondNe1: the slips n > 2, n != 1.)
LoopCondGt2(x) == x > 2
LoopCondNe1(x) == x # 1
LoopCond(x) == x > 1

\* line 8: n % 2 == 0
IsEven(x) == RemI32(x, 2) = 0

\* line 9: n / 2
Halve(x) == DivI32(x, 2)

\* line 11: 3 * n + 1, left to right
TripleInc(x) ==
    LET m == Mul3I32(x)
        a == AddI32(m.val, 1)
    IN  [val |-> a.val, ovf |-> m.ovf \/ a.ovf]

\* The state at the call: the argument is in n.
CollatzInit(args) ==
    /\ n0 \in args
    /\ cn = n0
    /\ steps = 0
    /\ cpc = "entry"
    /\ result = 0

\* lines 5-6: the call, and let mut steps = 0.
Enter ==
    /\ cpc = "entry"
    /\ steps' = 0
    /\ cpc' = "loop"
    /\ UNCHANGED <<n0, cn, result>>
    /\ UNCHANGED <<buildVars, sortVars>>

\* line 7: the loop test.
LoopTest ==
    /\ cpc = "loop"
    /\ cpc' = IF LoopCond(cn) THEN "body" ELSE "ret"
    /\ UNCHANGED <<n0, cn, steps, result>>
    /\ UNCHANGED <<buildVars, sortVars>>

\* lines 8-13: one iteration.  An overflowing 3 * n + 1 or steps += 1 panics
\* with overflow checks on and wraps with them off.
Body ==
    /\ cpc = "body"
    /\ LET nxt == IF IsEven(cn)
                  THEN [val |-> Halve(cn), ovf |-> FALSE]
                  ELSE TripleInc(cn)
           cnt == AddI32(steps, 1)
       IN  IF nxt.ovf /\ overflowChecks
           THEN /\ cpc' = "panic"
                /\ UNCHANGED <<cn, steps>>
           ELSE IF cnt.ovf /\ overflowChecks
           THEN /\ cpc' = "panic"
                /\ cn' = nxt.val
                /\ steps' = steps
           ELSE /\ cpc' = "loop"
                /\ cn' = nxt.val
                /\ steps' = cnt.val
    /\ UNCHANGED <<n0, result>>
    /\ UNCHANGED <<buildVars, sortVars>>

\* line 15: steps is returned.
CollatzReturn ==
    /\ cpc = "ret"
    /\ result' = steps
    /\ cpc' = "done"
    /\ UNCHANGED <<n0, cn, steps>>
    /\ UNCHANGED <<buildVars, sortVars>>

\* bubble_sort is not called.
SortIdle ==
    /\ ptr = "ok" /\ arr = <<>> /\ n = 0 /\ i = 0 /\ j = 0 /\ bound = 0 /\ pc = "idle"
    /\ call = 0 /\ input = <<>> /\ perm = <<>> /\ cmpLog = <<>> /\ swaps = 0
    /\ passes = 0 /\ touched = {} /\ underflow = FALSE /\ after1 = <<>>

CollatzNext ==
    \/ Enter
    \/ LoopTest
    \/ Body
    \/ CollatzReturn

\* collatz_steps on the non-positive and the overflowing arguments, in the
\* debug and the release profile (collatz_steps has no debug assertion).
CollatzSpecInit ==
    /\ overflowChecks \in BOOLEAN
    /\ debugAssertions = overflowChecks
    /\ CollatzInit(NonPositiveInputs \cup OverflowInputs)
    /\ SortIdle

SpecCollatz == CollatzSpecInit /\ [][CollatzNext]_vars

\* collatz_steps on every argument in 1 .. MaxN.
RangeSpecInit ==
    /\ overflowChecks \in BOOLEAN
    /\ debugAssertions = overflowChecks
    /\ CollatzInit(RangeInputs)
    /\ SortIdle

SpecCollatzRange == RangeSpecInit /\ [][CollatzNext]_vars

(***************************************************************************)
(* Properties of bubble_sort.                                              *)
(***************************************************************************)
Range(s) == {s[k] : k \in DOMAIN s}

Count(s, v) == Cardinality({k \in DOMAIN s : s[k] = v})

\* s and t hold the same multiset of values.
SameBag(s, t) ==
    /\ Len(s) = Len(t)
    /\ \A v \in Range(s) \cup Range(t) : Count(s, v) = Count(t, v)

\* s is in non-descending order.
IsSorted(s) == \A a, b \in DOMAIN s : a < b => s[a] <= s[b]

\* sorted(s), by rank: position k holds the value v with
\* #{elements < v} < k <= #{elements <= v}.
SortedOf(s) ==
    [k \in DOMAIN s |->
        CHOOSE v \in Range(s) :
            /\ Cardinality({m \in DOMAIN s : s[m] < v}) < k
            /\ k <= Cardinality({m \in DOMAIN s : s[m] <= v})]

\* C1: when bubble_sort returns, the buffer is sorted(S): a permutation of
\* the input S (same multiset of values) in non-descending order.
C1_SortedPermutation ==
    pc = "done" =>
        /\ SameBag(arr, input)
        /\ IsSorted(arr)
        /\ arr = SortedOf(input)

\* A descending buffer of MaxLen distinct values has been sorted.
C1_Witness ==
    /\ pc = "done"
    /\ call = 1
    /\ input = <<MaxI32, 1, 0, MinI32>>
    /\ arr = <<MinI32, 0, 1, MaxI32>>

\* C4: every index bubble_sort indexes the slice with lies in [0, len),
\* n - 1 - i never borrows, no index and no subtraction panics, and with
\* len = 0 the outer loop body is never entered and no element is accessed.
\* (The one way a call ends without returning is the abort of line 7 on a
\* null or misaligned ptr under debug assertions, before any access.)
C4_IndicesInRange ==
    /\ touched \subseteq 0 .. Len(arr) - 1
    /\ ~underflow
    /\ bound >= 0
    /\ pc # "panic"
    /\ pc = "abort" =>
          (~PtrValid(ptr) /\ debugAssertions /\ passes = 0 /\ touched = {})
    /\ Len(arr) = 0 => (passes = 0 /\ touched = {} /\ cmpLog = <<>>)

\* The call on an empty buffer at a valid address has returned.
C4_Witness ==
    /\ pc = "done"
    /\ ptr = "ok"
    /\ call = 1
    /\ Len(input) = 0
    /\ n = 0
    /\ passes = 0
    /\ touched = {}

\* C6: bubble_sort never swaps two equal elements, and two equal elements
\* always stand in the order they had in the input.
C6_Stable ==
    /\ pc = "swap" => arr[j + 1] # arr[j + 2]
    /\ \A a, b \in DOMAIN arr :
          (a < b /\ arr[a] = arr[b]) => perm[a] < perm[b]
    /\ \A a \in DOMAIN arr : arr[a] = input[perm[a] + 1]

\* A buffer with two pairs of duplicates, all of which moved, has been sorted.
C6_Witness ==
    /\ pc = "done"
    /\ call = 1
    /\ input = <<1, 0, 1, 0>>
    /\ arr = <<0, 0, 1, 1>>
    /\ perm = <<1, 3, 0, 2>>

\* C7: the second of two successive calls performs no swap and leaves the
\* buffer as the first call left it.
C7_Idempotent ==
    call = 2 => (swaps = 0 /\ arr = after1)

\* The second call has returned on a buffer the first call had to reorder.
C7_Witness ==
    /\ call = 2
    /\ pc = "done"
    /\ input # after1
    /\ arr = after1
    /\ Len(cmpLog) > 0

\* C8: on a buffer of length 0 or 1 bubble_sort performs no comparison and
\* no swap and leaves the buffer unchanged; for length 1 the outer loop body
\* is entered once, with an empty inner range.
C8_ShortBuffers ==
    Len(input) <= 1 =>
        /\ cmpLog = <<>>
        /\ swaps = 0
        /\ touched = {}
        /\ arr = input
        /\ pc # "panic"
        /\ pc \in {"ret", "done"} => passes = Len(input)
        /\ pc = "inner" => bound = 0

\* The call on a one-element buffer has returned after its one pass.
C8_Witness ==
    /\ pc = "done"
    /\ call = 1
    /\ Len(input) = 1
    /\ passes = 1
    /\ arr = input

\* Position in the comparison sequence of the comparison of (k, k + 1) in
\* pass p of a call on len elements: passes 0 .. p-1 make
\* (len-1) + (len-2) + ... + (len-p) comparisons.
CmpRank(len, p, k) == p * (len - 1) - (p * (p - 1)) \div 2 + k + 1

\* C9: no early exit.  The t-th comparison of a call is that of pass p,
\* pair (k, k + 1), with k <= n - 2 - p, in increasing order of p and of k;
\* on return there were exactly n passes and n(n-1)/2 comparisons.
C9_NoEarlyExit ==
    /\ \A t \in DOMAIN cmpLog :
          /\ cmpLog[t][2] <= Len(arr) - 2 - cmpLog[t][1]
          /\ t = CmpRank(Len(arr), cmpLog[t][1], cmpLog[t][2])
    /\ pc \in {"ret", "done"} =>
          /\ passes = Len(arr)
          /\ 2 * Len(cmpLog) = Len(arr) * (Len(arr) - 1)

\* A call on an already sorted buffer of MaxLen elements has returned after
\* all its comparisons.
C9_Witness ==
    /\ pc = "done"
    /\ call = 1
    /\ Len(input) >= 4
    /\ IsSorted(input)
    /\ swaps = 0
    /\ 2 * Len(cmpLog) = Len(input) * (Len(input) - 1)

\* Number of outer passes the current call has completed.
Completed == IF pc \in {"ret", "done"} THEN n ELSE i

\* The indices (1-based) of the last Completed elements.
Settled == (Len(arr) - Completed + 1) .. Len(arr)

\* The buffer changes only by a swap of two adjacent in-range elements.
AdjacentSwapOnly ==
    arr' # arr =>
        \E k \in 0 .. Len(arr) - 2 :
            /\ arr[k + 1] # arr[k + 2]
            /\ arr' = SwapAt(arr, k)

\* No step modifies an element a completed pass has settled.
SettledFrozen == \A k \in Settled : arr'[k] = arr[k]

\* C10: the buffer is always a permutation of the input and changes only by
\* adjacent swaps; after pass i the elements at n-1-i .. n-1 are in order,
\* each >= every element before it, and no later step modifies them.
C10_LoopInvariant ==
    /\ [](/\ SameBag(arr, input)
          /\ Completed <= Len(arr)
          /\ \A k \in Settled : \A m \in 1 .. k - 1 : arr[m] <= arr[k])
    /\ [][AdjacentSwapOnly /\ SettledFrozen]_vars

\* Two passes of the first call are complete, the buffer is not yet sorted,
\* and a swap is about to happen.
C10_Witness ==
    /\ call = 1
    /\ pc = "swap"
    /\ i = 2
    /\ Len(arr) = 4
    /\ arr[3] = 1 /\ arr[4] = MaxI32

(***************************************************************************)
(* Properties of collatz_steps.                                            *)
(***************************************************************************)
\* One step of the direct simulation, in the integers, without any wrapping.
RefStep(x) == IF x % 2 = 0 THEN x \div 2 ELSE 3 * x + 1

\* For n in 1 .. MaxN, one iteration of the loop is one step of the direct
\* simulation, counted once; every other step leaves n and steps alone.
SimulationStep ==
    (n0 \in 1 .. MaxN) =>
    IF cpc = "body"
    THEN cn' = RefStep(cn) /\ steps' = steps + 1 /\ cpc' = "loop"
    ELSE cn' = cn /\ steps' = (IF cpc = "entry" THEN 0 ELSE steps)

\* C2: for n in 1 .. MaxN the run of collatz_steps(n) is the direct
\* simulation: it starts at n with a count of 0, every iteration applies one
\* unwrapped step and counts it, the loop goes on exactly while the value has
\* not reached 1, nothing panics, the call can always go on until it has
\* returned, and it returns the count; collatz_steps(1) = 0,
\* collatz_steps(6) = 8, collatz_steps(27) = 111.
C2_MatchesSimulation ==
    /\ [](n0 \in 1 .. MaxN =>
            /\ cpc # "panic"
            /\ cn >= 1
            /\ cpc = "entry" => cn = n0
            /\ cpc = "body" => cn # 1
            /\ cpc \in {"ret", "done"} => cn = 1
            /\ cpc = "done" \/ ENABLED CollatzNext
            /\ cpc = "done" =>
                  /\ result = steps
                  /\ n0 = 1 => result = 0
                  /\ n0 = 6 => result = 8
                  /\ n0 = 27 => result = 111)
    /\ [][SimulationStep]_vars

\* collatz_steps(27) has returned 111.
C2_Witness ==
    /\ cpc = "done"
    /\ n0 = 27
    /\ result = 111

\* C3 as stated: for n <= 0 collatz_steps never returns.
C3_NeverReturns ==
    n0 <= 0 => cpc # "done"

\* C3 as amended: for n <= 0 the loop test fails at once: the body is never
\* executed, n and steps stay as they were, the call can always go on until
\* it has returned, and it returns 0.
C3_ReturnsZero ==
    n0 <= 0 =>
        /\ cpc \in {"entry", "loop", "ret", "done"}
        /\ cn = n0
        /\ steps = 0
        /\ cpc = "done" \/ ENABLED CollatzNext
        /\ cpc = "done" => result = 0

\* collatz_steps(i32::MIN) has returned 0.
C3_Witness ==
    /\ cpc = "done"
    /\ n0 = MinI32
    /\ cn = MinI32
    /\ result = 0

\* 3x + 1 leaves i32 for an x of the loop (x > 1).
Overflows(x) == x > (MaxI32 - 1) \div 3

\* 3x + 1 - 2^32, for an x with i32::MAX < 3x + 1: 3 * 1431655765 + 1 = 2^32.
Wrapped3x1(x) == 3 * (x - 1431655765)

\* collatz_steps of the overflowing arguments, iterating the step with
\* 3n + 1 reduced modulo 2^32 into i32 until the value is <= 1:
\*   715827883 -> -2147483646;  1431655765 -> 0;
\*   1431655767 -> 6 -> 3 -> 10 -> 5 -> 16 -> 8 -> 4 -> 2 -> 1;
\*   2147483647 -> 2147483646 -> 1073741823 -> -1073741826;
\*   113383 -> ... -> 827370449 (step 119) -> -1812855948.
WrappedCount(x) ==
    CASE x = 113383 -> 120
      [] x = 715827883 -> 1
      [] x = 1431655765 -> 1
      [] x = 1431655767 -> 9
      [] x = MaxI32 -> 3

\* C5 as stated: an overflowing 3n + 1 never aborts the call; the call goes
\* on with the wrapped value and returns the count of the wrapping iteration.
C5_AlwaysWraps ==
    /\ cpc # "panic"
    /\ (cpc = "done" /\ n0 \in OverflowInputs) => result = WrappedCount(n0)

\* One iteration from an odd n whose 3n + 1 leaves i32.
OverflowStep ==
    (cpc = "body" /\ ~IsEven(cn) /\ Overflows(cn)) =>
        IF overflowChecks
        THEN cpc' = "panic" /\ cn' = cn /\ steps' = steps
        ELSE cpc' = "loop" /\ cn' = Wrapped3x1(cn) /\ steps' = steps + 1

\* C5 as amended: in a build without overflow checks an overflowing 3n + 1
\* continues with the value wrapped modulo 2^32 into i32, and the call
\* returns the count of the wrapping iteration, stopped at a value <= 1; in a
\* build with overflow checks the call panics at that 3n + 1 and returns
\* nothing.  Without an overflow there is no panic.
C5_WrapsOrPanics ==
    /\ [](/\ cpc = "panic" => (overflowChecks /\ Overflows(cn))
          /\ (cpc = "done" /\ n0 \in OverflowInputs) =>
                /\ ~overflowChecks
                /\ cn <= 1
                /\ result = WrappedCount(n0))
    /\ [][OverflowStep]_vars

\* Without overflow checks, collatz_steps(1431655767) has wrapped to 6 and
\* returned 1 + collatz_steps(6) = 9.
C5_Witness ==
    /\ ~overflowChecks
    /\ cpc = "done"
    /\ n0 = 1431655767
    /\ result = 9

=============================================================================
